---- MODULE Spec2Model ----
(***************************************************************************)
(* The five stage programs of mimic_benchmark_mamba as state machines.     *)
(* Every stage is a separate command-line program that reads one directory *)
(* and writes another; each specification below starts from the input of   *)
(* one stage and applies that stage's handlers.                            *)
(*                                                                         *)
(* Numbers: every numeric field (hours, value, label) is an integer of the *)
(* model.  The raw minute values tried are multiples of 60, so that the    *)
(* division by 60.0 of _to_hours is exact on them.  A sample id            *)
(* "{split}_{idx}" is held as idx (idx <= 9, where the string order of the *)
(* ids is the order of idx); the split is the directory the table lives    *)
(* in.                                                                     *)
(***************************************************************************)
EXTENDS Integers, Sequences, FiniteSets, TLC

VARIABLES
    pc,         \* position of the program under check
    err,        \* the exception the program ended with, or "none"
    listfile,   \* stage 1 input: <split>/listfile.csv, [cols, rows]
    ts_dir,     \* stage 1 input: the time series files of the split, path -> table
    clean_root, \* stage 1 output: clean/<split> -> [files, labels, has_labels]
    var_to_id,  \* stage 2 output: var_to_id.json, name -> id
    events,     \* stage 2 output: split -> <split>/events.parquet (rows)
    labels,     \* stage 2 output: split -> <split>/labels.parquet [cols, rows]
    split,      \* the split process_split of stage 3 or 4 works on
    max_len,    \* stage 3 parameter --max_len
    seq,        \* stage 3 output: <split>/seq.npz, [written, sample_ids, X]
    task,       \* stage 4 parameter --task
    targets,    \* stage 4 output: <split>/targets.npy, [written, y]
    disk,       \* the files of a pipeline run: path -> content
    dirs,       \* the directories a pipeline run has made
    roots       \* the --out_root of stages 1 to 4 of a pipeline run

vars == <<pc, err, listfile, ts_dir, clean_root, var_to_id, events, labels, split, max_len, seq,
          task, targets,
         disk, dirs, roots>>

(***************************************************************************)
(* Bounds of the model.                                                    *)
(***************************************************************************)
MaxEvents == 4      \* rows of an events table
MaxLen == 2         \* largest --max_len tried
MaxLabelRows == 2   \* rows of a label table, and samples of a seq.npz
MaxCleanEvents == 3 \* event rows in all the per-sample tables of a clean root
MaxManifestRows == 2 \* rows of a listfile.csv
MaxRawRows == 2     \* rows of a raw time series file

(***************************************************************************)
(* Sequence helpers.                                                       *)
(***************************************************************************)
Range(s) == {s[i] : i \in 1..Len(s)}

SeqsUpTo(S, n) == UNION {[1..k -> S] : k \in 0..n}

\* The elements of s at the indices in I, in increasing index order.
AtIndices(s, I) ==
    LET idx == SelectSeq([i \in 1..Len(s) |-> i], LAMBDA i : i \in I)
    IN  [k \in 1..Len(idx) |-> s[idx[k]]]

RECURSIVE Flatten(_)
\* The concatenation of a sequence of sequences.
Flatten(ss) == IF Len(ss) = 0 THEN <<>> ELSE Head(ss) \o Flatten(Tail(ss))

\* How many times x occurs in s.
CountIn(s, x) == Cardinality({i \in 1..Len(s) : s[i] = x})

\* Tuples of numbers in lexicographic order.
LexLess(a, b) ==
    \E k \in 1..Len(a) : a[k] < b[k] /\ \A j \in 1..(k - 1) : a[j] = b[j]

\* DataFrame.sort_values is a stable sort here (a lexsort on several keys,
\* an insertion sort on one key of a short table): row i, with key keys[i],
\* goes after the rows of smaller key and after the rows of equal key that
\* came first.
StableSort(s, keys) ==
    LET n == Len(s)
        pos(i) == 1 + Cardinality({j \in 1..n :
                        \/ LexLess(keys[j], keys[i])
                        \/ keys[j] = keys[i] /\ j < i})
    IN  [p \in 1..n |-> s[CHOOSE i \in 1..n : pos(i) = p]]

(***************************************************************************)
(* Values of the variables a specification does not use.                   *)
(***************************************************************************)
\* A cell of a table read from CSV: a number, a missing value, or a text
\* that is no number.
Num(n) == <<"num", n>>
NaN == <<"nan", 0>>
Text(k) == <<"str", k>>
Str == Text(0)

IsNum(c) == c[1] = "num"

NoLabels == [cols |-> <<>>, rows |-> <<>>]
NoTargets == [written |-> FALSE, y |-> <<>>]
NoSeq == [written |-> FALSE, sample_ids |-> <<>>, X |-> <<>>]

NoFiles == <<>>     \* a function of empty domain: nothing written

Idle1 == listfile = NoLabels /\ ts_dir = NoFiles

Idle2 == clean_root = NoFiles /\ var_to_id = NoFiles

Idle3 == max_len = 0 /\ seq = NoSeq

Idle4 == task = "" /\ targets = NoTargets
IdlePipe == disk = NoFiles /\ dirs = {} /\ roots = NoFiles

(***************************************************************************)
(* Stage 1, 1_load_clean.py: the Event Normalizer.                         *)
(* A CSV table is [cols, rows], a row the sequence of its cells in column  *)
(* order.  The functions of names (strip, lower, "in", basename, str) are  *)
(* tabulated on the names the model uses.                                  *)
(***************************************************************************)
\* The text cells that name a time series file.
PathName(cell) ==
    CASE cell = Text(1) -> "a.csv"
      [] cell = Text(2) -> "sub/a.csv"
      [] cell = Text(3) -> "b.csv"
      [] OTHER -> "gone.csv"

\* os.path.basename
Basename(path) == IF path = "sub/a.csv" THEN "a.csv" ELSE path

\* c.strip().lower()
NormalizeName(c) ==
    CASE c = " Filename" -> "filename"
      [] c = "Mortality" -> "mortality"
      [] OTHER -> c

\* "file" in c
ContainsFile(c) == c \in {"filename", "ts_filename"}

\* "min" in time_col.lower()
ContainsMin(c) == c \in {"Minutes", "minutes"}

\* astype(str) on a variable column name: its code points.
CodePoints(c) ==
    CASE c = "HR" -> <<72, 82>>
      [] c = "Temp" -> <<84, 101, 109, 112>>
      [] OTHER -> <<63>>

ColumnIndex(df, c) == CHOOSE k \in 1..Len(df.cols) : df.cols[k] = c

\* _read_listfile
ReadListfile(raw) ==
    [cols |-> [k \in 1..Len(raw.cols) |-> NormalizeName(raw.cols[k])], rows |-> raw.rows]

TimeCandidates == <<"Hours", "hours", "Time", "time", "Minutes", "minutes">>

\* _detect_time_column; "" stands for the ValueError it raises.
DetectTimeColumn(df) ==
    LET hits == SelectSeq(TimeCandidates, LAMBDA c : c \in Range(df.cols))
    IN  IF Len(hits) = 0 THEN "" ELSE hits[1]

\* _to_hours: the time column as floats, divided by 60.0 for minutes.
ToHours(df, time_col) ==
    LET ci == ColumnIndex(df, time_col)
    IN  [i \in 1..Len(df.rows) |->
            IF ContainsMin(time_col) THEN df.rows[i][ci][2] \div 60
            ELSE df.rows[i][ci][2]]

\* _melt_long: one row per (variable column, table row) in that order,
\* without the rows whose value is missing or no number; the time column
\* is renamed to hours.
MeltLong(df, time_col) ==
    LET ti == ColumnIndex(df, time_col)
        value_cols == SelectSeq(df.cols, LAMBDA c : c # time_col)
        long == Flatten([k \in 1..Len(value_cols) |->
                    [i \in 1..Len(df.rows) |->
                        [hours |-> df.rows[i][ti][2],
                         variable |-> value_cols[k],
                         value |-> df.rows[i][ColumnIndex(df, value_cols[k])]]]])
        numeric == SelectSeq(long, LAMBDA r : IsNum(r.value))
    IN  [cols |-> <<"hours", "variable", "value">>,
         rows |-> [i \in 1..Len(numeric) |->
                      [hours |-> numeric[i].hours, variable |-> numeric[i].variable,
                       value |-> numeric[i].value[2]]]]

MeltLongParams == 2     \* def _melt_long(df, time_col)

\* A call of _melt_long with the positional arguments args: Python raises
\* TypeError unless they are as many as the parameters.
CallMeltLong(args) ==
    IF Len(args) # MeltLongParams
    THEN [raised |-> TRUE, value |-> [cols |-> <<>>, rows |-> <<>>]]
    ELSE [raised |-> FALSE, value |-> MeltLong(args[1], args[2])]

LabelExclude ==
    {"stay", "stay_id", "subject_id", "hadm_id", "icustay_id", "filename", "time", "hours"}

\* _extract_labels_columns
ExtractLabelsColumns(lf) == SelectSeq(lf.cols, LAMBDA c : c \notin LabelExclude)

\* The column process_split renames to filename; "" when there is none.
FilenameColumn(lf) ==
    IF "filename" \in Range(lf.cols) THEN "filename"
    ELSE LET cand == SelectSeq(lf.cols, ContainsFile)
         IN  IF Len(cand) = 0 THEN "" ELSE cand[1]

\* The path process_split opens for a manifest file name; "" when neither
\* the name nor its base name exists in the split directory.
ResolvePath(dir, name) ==
    IF name \in DOMAIN dir THEN name
    ELSE IF Basename(name) \in DOMAIN dir THEN Basename(name)
    ELSE ""

\* ts.sort_values(by=time_col)
SortByTime(ts, time_col) ==
    LET ci == ColumnIndex(ts, time_col)
    IN  [cols |-> ts.cols,
         rows |-> StableSort(ts.rows, [i \in 1..Len(ts.rows) |-> <<ts.rows[i][ci][2]>>])]

\* pd.concat([ts[[time_col]], ts[cols_to_melt]], axis=1)
WideFrame(ts, time_col) ==
    LET cols_to_melt == SelectSeq(ts.cols, LAMBDA c : c \notin {time_col, "hours"})
        cols == <<time_col>> \o cols_to_melt
    IN  [cols |-> cols,
         rows |-> [i \in 1..Len(ts.rows) |->
                      [k \in 1..Len(cols) |-> ts.rows[i][ColumnIndex(ts, cols[k])]]]]

\* The sample id of manifest row i (1-based here, idx = i - 1 in the code).
SampleId(i) == i - 1

\* {"sample_id": sample_id, **{c: row[c] for c in label_cols}}: a label
\* column named sample_id replaces the stamped id.
LabelRecord(lf, label_cols, i) ==
    LET others == SelectSeq(label_cols, LAMBDA c : c # "sample_id")
    IN  [sample_id |-> IF "sample_id" \in Range(label_cols)
                       THEN lf.rows[i][ColumnIndex(lf, "sample_id")][2]
                       ELSE SampleId(i),
         vals |-> [k \in 1..Len(others) |-> lf.rows[i][ColumnIndex(lf, others[k])]]]

\* The event table written for manifest row i from the melted frame: the
\* hours column the melt left (recomputed only when it left none), the
\* variable names as strings, the sample id in front.
EventTable(long_df, ts, time_col, i) ==
    LET hours == IF "hours" \in Range(long_df.cols)
                 THEN [r \in 1..Len(long_df.rows) |-> long_df.rows[r].hours]
                 ELSE ToHours(ts, time_col)
    IN  [r \in 1..Len(long_df.rows) |->
            [sample_id |-> SampleId(i), hours |-> hours[r],
             variable |-> CodePoints(long_df.rows[r].variable),
             value |-> long_df.rows[r].value]]

\* pd.DataFrame(labels_records): the label table of a split.
LabelsFrame(label_cols, records) ==
    [cols |-> IF Len(records) = 0 THEN <<>>
              ELSE SelectSeq(label_cols, LAMBDA c : c # "sample_id"),
     rows |-> records]

\* The body of process_split's loop for manifest row i: the error it
\* raises, or the event table and the label record it produces.
NormalizeRow(lf, label_cols, dir, i) ==
    LET none == [table |-> <<>>, label |-> [sample_id |-> SampleId(i), vals |-> <<>>]]
        name == PathName(lf.rows[i][ColumnIndex(lf, "filename")])
        path == ResolvePath(dir, name)
    IN  IF path = ""
        THEN [err |-> "FileNotFoundError: Timeseries file not found"] @@ none
        ELSE LET raw == dir[path]
                 time_col == DetectTimeColumn(raw)
             IN  IF time_col = ""
                 THEN [err |-> "ValueError: No time column found"] @@ none
                 ELSE LET ts == SortByTime(raw, time_col)
                          wide == WideFrame(ts, time_col)
                          call == CallMeltLong(<<wide>>)
                      IN  IF call.raised
                          THEN [err |-> "TypeError: _melt_long() missing 1 required positional argument: 'time_col'"] @@ none
                          ELSE [err |-> "none",
                                table |-> EventTable(call.value, ts, time_col, i),
                                label |-> LabelRecord(lf, label_cols, i)]

\* listfile.rename(columns={file_col: "filename"})
RenameFilename(lf) ==
    [cols |-> [k \in 1..Len(lf.cols) |->
                  IF lf.cols[k] = FilenameColumn(lf) THEN "filename" ELSE lf.cols[k]],
     rows |-> lf.rows]

\* The end of process_split of stage 1, res being what the loop body gives
\* per manifest row: the loop stops at the first row that raises, the
\* tables of the rows before it are written, the label table is written
\* when no row raised.
GatherRows(label_cols, res) ==
    LET n    == Len(res)
        bad  == {i \in 1..n : res[i].err # "none"}
        stop == IF bad = {} THEN n + 1
                ELSE CHOOSE i \in bad : \A j \in bad : i <= j
    IN  [err |-> IF bad = {} THEN "none" ELSE res[stop].err,
         made |-> TRUE,
         files |-> [idx \in {SampleId(i) : i \in 1..(stop - 1)} |-> res[idx + 1].table],
         labels |-> IF bad = {}
                    THEN LabelsFrame(label_cols, [i \in 1..n |-> res[i].label])
                    ELSE NoLabels,
         has_labels |-> bad = {}]

\* process_split of stage 1 from the renamed manifest on.
NormalizeListed(lf, dir) ==
    IF Len(ExtractLabelsColumns(lf)) = 0
    THEN [err |-> "ValueError: No label columns found in listfile", made |-> FALSE,
          files |-> <<>>, labels |-> NoLabels, has_labels |-> FALSE]
    ELSE GatherRows(ExtractLabelsColumns(lf),
                    [i \in 1..Len(lf.rows) |->
                        NormalizeRow(lf, ExtractLabelsColumns(lf), dir, i)])

\* process_split of stage 1 on one split: the error it raises and what it
\* has written by then (made: the output directory exists).
NormalizeSplit(raw_lf, dir) ==
    IF FilenameColumn(ReadListfile(raw_lf)) = ""
    THEN [err |-> "ValueError: listfile missing filename column", made |-> FALSE,
          files |-> <<>>, labels |-> NoLabels, has_labels |-> FALSE]
    ELSE NormalizeListed(RenameFilename(ReadListfile(raw_lf)), dir)

\* The inputs of stage 1: a manifest and the files of its split directory.
ManifestColumns ==
    {<<" Filename", "Mortality">>, <<"ts_filename", "y_true">>, <<"stay", "y_true">>,
     <<"filename", "stay_id">>, <<"filename", "sample_id">>, <<"filename", "mortality">>}
ManifestCell(c) ==
    IF c \in {" Filename", "ts_filename", "filename", "stay"} THEN {Text(2), Text(4)}
    ELSE IF c = "sample_id" THEN {Num(7)}
    ELSE {Num(1)}
RowsOver(cells, n) ==
    SeqsUpTo({r \in [DOMAIN cells -> UNION Range(cells)] :
                 \A k \in DOMAIN cells : r[k] \in cells[k]}, n)
Manifests ==
    UNION {{[cols |-> cols, rows |-> rows] : rows \in RowsOver([k \in 1..Len(cols) |-> ManifestCell(cols[k])],
                                 MaxManifestRows)} :
           cols \in ManifestColumns}
RawColumns ==
    {<<"Hours", "HR">>, <<"Minutes", "HR", "Temp">>, <<"hours", "HR">>, <<"HR">>}
RawCell(cols, c) ==
    IF c \in {"Hours", "Minutes", "hours"} THEN {Num(0), Num(60)}
    ELSE IF cols = <<"Hours", "HR">> THEN {Num(5), NaN, Str}
    ELSE IF cols = <<"Minutes", "HR", "Temp">> THEN {Num(5), NaN}
    ELSE {Num(5)}
RawTables ==
    UNION {{[cols |-> cols, rows |-> rows] :
               rows \in RowsOver([k \in 1..Len(cols) |-> RawCell(cols, cols[k])],
                                 MaxRawRows)} :
           cols \in RawColumns}
SplitDirs == {[f \in {"a.csv"} |-> t] : t \in RawTables}

Init1 ==
    /\ pc = "stage1"
    /\ err = "none"
    /\ IdlePipe
    /\ listfile \in Manifests
    /\ ts_dir \in SplitDirs
    /\ Idle2
    /\ events = NoFiles
    /\ labels = NoFiles
    /\ split = ""
    /\ Idle3
    /\ Idle4

\* process_split of stage 1 for the split train.
ProcessSplit1 ==
    /\ pc = "stage1"
    /\ LET res == NormalizeSplit(listfile, ts_dir)
       IN  /\ err' = res.err
           /\ clean_root' = IF res.made
                            THEN [sp \in {"train"} |->
                                     [files |-> res.files, labels |-> res.labels,
                                      has_labels |-> res.has_labels]]
                            ELSE NoFiles
           /\ pc' = IF res.err = "none" THEN "done1" ELSE "failed1"
    /\ split' = "train"
    /\ UNCHANGED <<disk, dirs, roots, listfile, ts_dir, var_to_id, events, labels, max_len, seq, task, targets>>

Next1 == ProcessSplit1

Spec1 == Init1 /\ [][Next1]_vars

(***************************************************************************)
(* The functions of stage 1 on their own.  process_split stops at its call *)
(* of _melt_long, so what _melt_long, _to_hours and the label record do is *)
(* checked by applying them to the arguments their definitions take:       *)
(* _melt_long(df, time_col) to the sorted wide frame of a file, and the    *)
(* label record to every row of a manifest.                                *)
(***************************************************************************)
InitFn1 ==
    /\ pc = "fn1"
    /\ err = "none"
    /\ IdlePipe
    /\ listfile \in Manifests
    /\ ts_dir \in SplitDirs
    /\ Idle2
    /\ events = NoFiles
    /\ labels = NoFiles
    /\ split = "train"
    /\ Idle3
    /\ Idle4

\* _melt_long(wide, time_col) on a file with a time column, then the
\* event table of sample train_0 made from its result.
ApplyMeltLong ==
    /\ pc = "fn1"
    /\ clean_root = NoFiles
    /\ \E f \in DOMAIN ts_dir :
          LET time_col == DetectTimeColumn(ts_dir[f])
          IN  /\ time_col # ""
              /\ LET ts   == SortByTime(ts_dir[f], time_col)
                     call == CallMeltLong(<<WideFrame(ts, time_col), time_col>>)
                 IN  clean_root' =
                        [sp \in {split} |->
                            [files |-> [idx \in {SampleId(1)} |->
                                           EventTable(call.value, ts, time_col, 1)],
                             labels |-> NoLabels, has_labels |-> FALSE]]
    /\ UNCHANGED <<disk, dirs, roots, pc, err, listfile, ts_dir, var_to_id, events, labels, split,
                   max_len, seq, task, targets>>

\* The label record of every row of a manifest that has a filename column
\* and a label column, gathered into the label table.
ApplyLabelRecord ==
    /\ pc = "fn1"
    /\ labels = NoFiles
    /\ FilenameColumn(ReadListfile(listfile)) # ""
    /\ LET lf == RenameFilename(ReadListfile(listfile))
           label_cols == ExtractLabelsColumns(lf)
       IN  /\ Len(label_cols) > 0
           /\ labels' = [sp \in {split} |->
                            LabelsFrame(label_cols,
                                [i \in 1..Len(lf.rows) |-> LabelRecord(lf, label_cols, i)])]
    /\ UNCHANGED <<disk, dirs, roots, pc, err, listfile, ts_dir, clean_root, var_to_id, events, split,
                   max_len, seq, task, targets>>

NextFn1 == ApplyMeltLong \/ ApplyLabelRecord

SpecFn1 == InitFn1 /\ [][NextFn1]_vars

(***************************************************************************)
(* Claims about stage 1.                                                   *)
(***************************************************************************)
\* The raw file of the split directory and what stage 1 reads from it.
RawFile == ts_dir["a.csv"]
RawTimeColumn == DetectTimeColumn(RawFile)
RawTimes == {RawFile.rows[i][ColumnIndex(RawFile, RawTimeColumn)][2] : i \in 1..Len(RawFile.rows)}
NumericCells ==
    {<<i, k>> \in (1..Len(RawFile.rows)) \X (1..Len(RawFile.cols)) :
        RawFile.cols[k] # RawTimeColumn /\ IsNum(RawFile.rows[i][k])}
WrittenTables ==
    UNION {{clean_root[sp].files[idx] : idx \in DOMAIN clean_root[sp].files} :
           sp \in DOMAIN clean_root}
ManifestOk ==
    /\ FilenameColumn(ReadListfile(listfile)) # ""
    /\ Len(ExtractLabelsColumns(RenameFilename(ReadListfile(listfile)))) > 0
RowFileFound(i) ==
    LET lf == RenameFilename(ReadListfile(listfile))
    IN  ResolvePath(ts_dir, PathName(lf.rows[i][ColumnIndex(lf, "filename")])) # ""

\* C4: in every event table made by stage 1, for a raw time series with
\* any number of variable columns and any order of raw rows, the rows are
\* non-decreasing in hours from first row to last.
C4_HoursNonDecreasing ==
    \A t \in WrittenTables : \A i, j \in 1..Len(t) : i < j => t[i].hours <= t[j].hours

\* C5: for every manifest row whose time series file exists and has a
\* recognizable time column, stage 1 completes without error and writes an
\* event table holding exactly one row per numeric non-time cell.
C5_CompletesOneRowPerNumericCell ==
    (/\ pc \in {"done1", "failed1"}
     /\ ManifestOk
     /\ RawTimeColumn # ""
     /\ \A i \in 1..Len(listfile.rows) : RowFileFound(i))
    => /\ err = "none"
       /\ \A i \in 1..Len(listfile.rows) :
             /\ SampleId(i) \in DOMAIN clean_root["train"].files
             /\ Len(clean_root["train"].files[SampleId(i)]) = Cardinality(NumericCells)

\* C6: when the detected time column is named Minutes or minutes, the hours
\* value of every event row equals a raw time value divided by 60; when it
\* is named Hours, hours, Time or time, it equals a raw time value unchanged.
C6_MinutesDividedBy60 ==
    \A t \in WrittenTables : \A r \in 1..Len(t) :
        IF RawTimeColumn \in {"Minutes", "minutes"}
        THEN t[r].hours \in {m \div 60 : m \in RawTimes}
        ELSE t[r].hours \in RawTimes

\* C9: whatever columns the manifest contains, the label-table row made for
\* manifest row i carries the sample id of that row, so the sample ids of a
\* split's label table are pairwise distinct.
C9_LabelRowCarriesSampleId ==
    \A sp \in DOMAIN labels :
        /\ \A i \in 1..Len(labels[sp].rows) : labels[sp].rows[i].sample_id = SampleId(i)
        /\ \A i, j \in 1..Len(labels[sp].rows) :
              i # j => labels[sp].rows[i].sample_id # labels[sp].rows[j].sample_id

(***************************************************************************)
(* Stage 3, 3_build_seq.py: the Sequence Packer.                           *)
(***************************************************************************)
F32ExactMax == 16777216     \* 2^24: float32 holds every integer up to it

\* The cast of np.zeros(..., dtype=np.float32) on assignment: exact up to
\* 2^24, to the nearest even multiple of two above it (round half to even).
Float32(x) ==
    LET a == IF x < 0 THEN -x ELSE x
        r == IF a <= F32ExactMax THEN a
             ELSE IF a % 2 = 0 THEN a
             ELSE IF ((a - 1) \div 2) % 2 = 0 THEN a - 1 ELSE a + 1
    IN  IF x < 0 THEN -r ELSE r

\* The keys of events.sort_values(["sample_id", "hours"])
SampleHoursKeys(ev) == [i \in 1..Len(ev) |-> <<ev[i].sample_id, ev[i].hours>>]

\* events.groupby("sample_id", sort=False): the keys in order of first
\* appearance, and the rows of one key in table order.
GroupKeys(ev) ==
    AtIndices([i \in 1..Len(ev) |-> ev[i].sample_id],
              {i \in 1..Len(ev) :
                  \A j \in 1..(i - 1) : ev[j].sample_id # ev[i].sample_id})

GroupRows(ev, sid) == SelectSeq(ev, LAMBDA r : r.sample_id = sid)

HeadSlice(s, n) == IF n >= Len(s) THEN s ELSE SubSeq(s, 1, n)

\* seq[-max_len:, :]
TailSlice(s, n) ==
    IF n = 0 \/ n >= Len(s) THEN s ELSE SubSeq(s, Len(s) - n + 1, Len(s))

ZeroRow == <<0, 0, 0, 0>>

\* The body of pad_truncate's loop: one (max_len, 4) float32 array.
PackOne(df, L) ==
    LET s == [i \in 1..Len(df) |-> <<df[i].hours, df[i].var_id, df[i].value>>]
    IN  IF Len(s) <= L
        THEN [r \in 1..L |->
                IF r <= Len(s)
                THEN <<Float32(s[r][1]), Float32(s[r][2]), Float32(s[r][3]), 0>>
                ELSE ZeroRow]
        ELSE LET t == TailSlice(s, L)
             IN  [r \in 1..L |->
                    <<Float32(t[r][1]), Float32(t[r][2]), Float32(t[r][3]), 0>>]

PadTruncate(ev, L) ==
    LET keys == GroupKeys(ev)
    IN  [k \in 1..Len(keys) |->
            [sample_id |-> keys[k], arr |-> PackOne(GroupRows(ev, keys[k]), L)]]

\* process_split of stage 3 on one events table: what it writes, or the
\* error it ends with (np.stack of an empty list raises ValueError).
BuildSeq(ev, L) ==
    LET sorted == StableSort(ev, SampleHoursKeys(ev))
        packed == PadTruncate(sorted, L)
    IN  IF Len(packed) = 0
        THEN [err |-> "ValueError: need at least one array to stack",
              seq |-> NoSeq]
        ELSE [err |-> "none",
              seq |-> [written |-> TRUE,
                       sample_ids |-> [k \in 1..Len(packed) |-> packed[k].sample_id],
                       X |-> [k \in 1..Len(packed) |-> packed[k].arr]]]

\* The events tables tried: rows of two samples, sample 0 at three times
\* on two variables, sample 1 at two times on one.
SampleIds == {0, 1}
HourValues == {0, 1, 2}
ObservationsOf(sid) == IF sid = 0 THEN {<<1, -1>>, <<2, 4>>} ELSE {<<1, 4>>}
EventRows ==
    UNION {{[sample_id |-> sid, hours |-> h, var_id |-> o[1], value |-> o[2]] :
                h \in (IF sid = 0 THEN HourValues ELSE HourValues \ {2}),
                o \in ObservationsOf(sid)} : sid \in SampleIds}

Init3 ==
    /\ pc = "stage3"
    /\ err = "none"
    /\ IdlePipe
    /\ Idle1
    /\ Idle2
    /\ \E ev \in SeqsUpTo(EventRows, MaxEvents) : events = [sp \in {"train"} |-> ev]
    /\ labels = NoFiles
    /\ split = ""
    /\ max_len \in 1..MaxLen
    /\ seq = NoSeq
    /\ Idle4

\* process_split(split_in, split_out, max_len) of stage 3
ProcessSplit3 ==
    /\ pc = "stage3"
    /\ \E sp \in DOMAIN events :
          LET out == BuildSeq(events[sp], max_len)
          IN  /\ split' = sp
              /\ err' = out.err
              /\ seq' = out.seq
    /\ pc' = "done3"
    /\ UNCHANGED <<disk, dirs, roots, listfile, ts_dir, clean_root, var_to_id, events, labels, max_len, task, targets>>

Next3 == ProcessSplit3

Spec3 == Init3 /\ [][Next3]_vars

(***************************************************************************)
(* C1                                                                      *)
(***************************************************************************)
EventsOf(sid) == SelectSeq(events[split], LAMBDA r : r.sample_id = sid)

Triple(r) == <<r.hours, r.var_id, r.value, 0>>

SlotsOf(sid) == {k \in 1..Len(seq.sample_ids) : seq.sample_ids[k] = sid}

NonDecreasing(rows) ==
    \A i \in 1..Len(rows), j \in 1..Len(rows) : i < j => rows[i][1] <= rows[j][1]

\* The rows of arr are c of the events evs (as a bag), in non-decreasing
\* hours order, and no event left out is later than one kept.
HoldsLast(arr, evs, c) ==
    LET kept == SubSeq(arr, 1, c)
        all  == [i \in 1..Len(evs) |-> Triple(evs[i])]
    IN  /\ NonDecreasing(kept)
        /\ \A x \in Range(kept) : CountIn(kept, x) <= CountIn(all, x)
        /\ \A x \in Range(all) :
              CountIn(kept, x) < CountIn(all, x) =>
                  \A y \in Range(kept) : x[1] <= y[1]

\* C1: after stage 3 has packed a split with max_len L >= 1, every sample
\* with c events in the events table (in any row order) has one slot; if
\* c <= L its rows 1..c are its events in non-decreasing hours order and
\* the rows after them and the fourth column are zero; if c > L its L rows
\* are the chronologically last L of its events, left-aligned and in
\* non-decreasing hours order.
C1_PackedTensor ==
    pc = "done3" =>
        \A sid \in {r.sample_id : r \in Range(events[split])} :
            LET evs == EventsOf(sid)
                c   == Len(evs)
            IN  /\ err = "none"
                /\ Cardinality(SlotsOf(sid)) = 1
                /\ \A k \in SlotsOf(sid) :
                      LET arr == seq.X[k]
                      IN  /\ Len(arr) = max_len
                          /\ \A r \in 1..max_len : arr[r][4] = 0
                          /\ IF c <= max_len
                             THEN /\ HoldsLast(arr, evs, c)
                                  /\ \A r \in (c + 1)..max_len : arr[r] = ZeroRow
                             ELSE HoldsLast(arr, evs, max_len)

\* A split that arrives out of time order and holds a sample with more
\* events than max_len next to one with fewer has been packed.
C1_Witness ==
    /\ pc = "done3"
    /\ err = "none"
    /\ \E sid \in SampleIds : Len(EventsOf(sid)) > max_len
    /\ \E sid \in SampleIds :
          Len(EventsOf(sid)) > 0 /\ Len(EventsOf(sid)) < max_len
    /\ \E i \in 1..Len(events[split]), j \in 1..Len(events[split]) :
          i < j /\ events[split][i].sample_id = events[split][j].sample_id
                /\ events[split][i].hours > events[split][j].hours

(***************************************************************************)
(* Stage 2, 2_format_convert.py: the Vocabulary Builder.                   *)
(* A variable name is the sequence of its code points.  A clean root is    *)
(* split -> [files, labels]; files maps the idx of "{split}_{idx}.parquet" *)
(* to its rows [sample_id, hours, variable, value].  A listing is one      *)
(* order os.listdir may return: [splits, files].                           *)
(***************************************************************************)
\* str < str: code points in lexicographic order, a proper prefix first.
StrLess(a, b) ==
    \/ Len(a) < Len(b) /\ \A j \in 1..Len(a) : a[j] = b[j]
    \/ \E k \in 1..Len(a) :
          k <= Len(b) /\ a[k] < b[k] /\ \A j \in 1..(k - 1) : a[j] = b[j]

\* sorted(list(variables))
Sorted(S) ==
    [p \in 1..Cardinality(S) |->
        CHOOSE x \in S : Cardinality({y \in S : StrLess(y, x)}) = p - 1]

\* df["variable"].unique()
VariablesOf(df) == {df[i].variable : i \in 1..Len(df)}

LoadVariableVocab(root, listing) ==
    Sorted(UNION {UNION {VariablesOf(root[sp].files[f]) :
                            f \in Range(listing.files[sp])} :
                     sp \in Range(listing.splits)})

\* A wrong numbering: enumerate's index as the id, so the first name gets 0.
BuildVarToIdFromZero(vocab) ==
    [v \in Range(vocab) |-> (CHOOSE p \in 1..Len(vocab) : vocab[p] = v) - 1]

\* {v: i + 1 for i, v in enumerate(vocab)}; the i of position p is p - 1.
BuildVarToId(vocab) ==
    [v \in Range(vocab) |-> ((CHOOSE p \in 1..Len(vocab) : vocab[p] = v) - 1) + 1]

\* The loop body of convert_split: sort, map the names, drop the unmapped.
ConvertFile(df, v2i) ==
    LET sorted == StableSort(df, SampleHoursKeys(df))
        known  == SelectSeq(sorted, LAMBDA r : r.variable \in DOMAIN v2i)
    IN  [i \in 1..Len(known) |->
            [sample_id |-> known[i].sample_id, hours |-> known[i].hours,
             var_id |-> v2i[known[i].variable], value |-> known[i].value]]

\* convert_split: the copy of labels.parquet, then events.parquet; the
\* errors when labels.parquet or every per-sample table is missing.
ConvertSplit(dir, order, v2i) ==
    IF ~dir.has_labels
    THEN [err |-> "FileNotFoundError: labels.parquet", copied |-> FALSE, events |-> <<>>]
    ELSE IF Len(order) = 0
    THEN [err |-> "ValueError: No timeseries parquet files found",
          copied |-> TRUE, events |-> <<>>]
    ELSE [err |-> "none", copied |-> TRUE,
          events |-> Flatten([k \in 1..Len(order) |-> ConvertFile(dir.files[order[k]], v2i)])]

ListingOrders(S) ==
    {s \in [1..Cardinality(S) -> S] : \A i, j \in 1..Cardinality(S) : i # j => s[i] # s[j]}

Listings(root) ==
    {[splits |-> so, files |-> fo] :
        so \in ListingOrders(DOMAIN root),
        fo \in {f \in [DOMAIN root ->
                          UNION {ListingOrders(DOMAIN root[sp].files) : sp \in DOMAIN root}] :
                    \A sp \in DOMAIN root : f[sp] \in ListingOrders(DOMAIN root[sp].files)}}

\* The clean roots tried: a train split of two samples and, or not, a test
\* split of one or no sample; up to MaxCleanEvents event rows in all.
NameA == <<97>>
NameAB == <<97, 98>>
NameB == <<98>>
CleanRowsOf(sp, idx) ==
    LET hs == IF sp = "train" /\ idx = 0 THEN {0, 1} ELSE {0}
        ns == IF sp = "train" /\ idx = 0 THEN {NameA, NameAB}
              ELSE IF sp = "train" THEN {NameAB, NameB} ELSE {NameA, NameB}
    IN  {[split |-> sp, sample_id |-> idx, hours |-> h, variable |-> n, value |-> 7] :
            h \in hs, n \in ns}
CleanRows ==
    CleanRowsOf("train", 0) \cup CleanRowsOf("train", 1) \cup CleanRowsOf("test", 0)
CleanLayouts ==
    {[sp \in {"train"} |-> {0, 1}],
     [sp \in {"train", "test"} |-> IF sp = "train" THEN {0, 1} ELSE {0}],
     [sp \in {"train", "test"} |-> IF sp = "train" THEN {0, 1} ELSE {}]}
CleanRoot(layout, m) ==
    [sp \in DOMAIN layout |->
        [files |-> [idx \in layout[sp] |->
                       LET own == SelectSeq(m, LAMBDA r : r.split = sp /\ r.sample_id = idx)
                       IN  [i \in 1..Len(own) |->
                               [sample_id |-> idx, hours |-> own[i].hours,
                                variable |-> own[i].variable, value |-> own[i].value]]],
         labels |-> [cols |-> <<"mortality">>,
                     rows |-> [i \in 1..Cardinality(layout[sp]) |->
                                  [sample_id |-> i - 1, vals |-> <<Num((i - 1) % 2)>>]]],
         has_labels |-> TRUE]]
CleanRoots ==
    {CleanRoot(layout, m) :
        layout \in CleanLayouts, m \in SeqsUpTo(CleanRows, MaxCleanEvents)}

Init2 ==
    /\ pc = "stage2"
    /\ err = "none"
    /\ IdlePipe
    /\ Idle1
    /\ clean_root \in CleanRoots
    /\ var_to_id = NoFiles
    /\ events = NoFiles
    /\ labels = NoFiles
    /\ split = ""
    /\ max_len \in 1..MaxLen
    /\ seq = NoSeq
    /\ Idle4

\* The end of main of stage 2, res being what convert_split gives per split
\* in listing order: the loop stops at the first split that raises.  made:
\* the splits whose output directory exists; labels and events: the files
\* written.
GatherSplits(root, listing, v2i, res) ==
    LET n    == Len(listing.splits)
        bad  == {k \in 1..n : res[k].err # "none"}
        stop == IF bad = {} THEN n + 1
                ELSE CHOOSE k \in bad : \A j \in bad : k <= j
    IN  [var_to_id |-> v2i,
         made |-> {listing.splits[k] : k \in {j \in 1..n : j <= stop}},
         labels |-> [sp \in {listing.splits[k] :
                                k \in {j \in 1..n : j <= stop /\ res[j].copied}} |->
                        root[sp].labels],
         events |-> [sp \in {listing.splits[k] : k \in 1..(stop - 1)} |->
                        res[CHOOSE k \in 1..n : listing.splits[k] = sp].events],
         err |-> IF bad = {} THEN "none" ELSE res[stop].err]

\* main of stage 2 once the vocabulary is built: convert_split per split.
ConvertWith(root, listing, v2i) ==
    GatherSplits(root, listing, v2i,
                 [k \in 1..Len(listing.splits) |->
                     ConvertSplit(root[listing.splits[k]],
                                  listing.files[listing.splits[k]], v2i)])

\* main of stage 2 on a clean root: the vocabulary over every split, then
\* convert_split per split in listing order until one raises.
ConvertRoot(root, listing) ==
    ConvertWith(root, listing, BuildVarToId(LoadVariableVocab(root, listing)))

\* main of stage 2
Stage2Main ==
    /\ pc = "stage2"
    /\ \E listing \in Listings(clean_root) :
          LET out == ConvertRoot(clean_root, listing)
          IN  /\ var_to_id' = out.var_to_id
              /\ labels' = out.labels
              /\ events' = out.events
              /\ err' = out.err
              /\ pc' = IF out.err = "none" THEN "stage3" ELSE "failed2"
    /\ UNCHANGED <<disk, dirs, roots, listfile, ts_dir, clean_root, split, max_len, seq, task, targets>>

Next2 == Stage2Main \/ ProcessSplit3

Spec2 == Init2 /\ [][Next2]_vars

(***************************************************************************)
(* C3, C10                                                                 *)
(***************************************************************************)
\* Every variable name of every per-sample table of every split.
ObservedNames ==
    UNION {UNION {VariablesOf(clean_root[sp].files[f]) :
                     f \in DOMAIN clean_root[sp].files} :
              sp \in DOMAIN clean_root}

\* The rows of all per-sample tables of a split.
CleanRowsIn(sp) ==
    Flatten([k \in 1..Cardinality(DOMAIN clean_root[sp].files) |->
                clean_root[sp].files[k - 1]])

\* Reading an id back through var_to_id.json.
DecodeId(id) == CHOOSE n \in DOMAIN var_to_id : var_to_id[n] = id

DecodedEvents(sp) ==
    [i \in 1..Len(events[sp]) |->
        [sample_id |-> events[sp][i].sample_id, hours |-> events[sp][i].hours,
         variable |-> DecodeId(events[sp][i].var_id), value |-> events[sp][i].value]]

\* C3: whatever the splits, their tables and the directory listing order,
\* the mapping stage 2 writes maps exactly the variable names observed in
\* any split, one to one, onto 1..N in the lexicographic order of the
\* names, never to 0; and the events of every split it has converted are
\* the split's rows with each name replaced by that id, so that reading the
\* id back gives the name.
C3_VocabularyBijection ==
    pc \in {"stage3", "failed2", "done3"} =>
        /\ DOMAIN var_to_id = ObservedNames
        /\ {var_to_id[n] : n \in ObservedNames} = 1..Cardinality(ObservedNames)
        /\ \A a, b \in ObservedNames : StrLess(a, b) => var_to_id[a] < var_to_id[b]
        /\ \A n \in ObservedNames : var_to_id[n] # 0
        /\ \A sp \in DOMAIN events :
              /\ Len(events[sp]) = Len(CleanRowsIn(sp))
              /\ \A x \in Range(CleanRowsIn(sp)) :
                    CountIn(DecodedEvents(sp), x) = CountIn(CleanRowsIn(sp), x)

\* Stage 2 has converted two splits that share a variable name, with at
\* least two names observed in all.
C3_Witness ==
    /\ pc = "stage3"
    /\ Cardinality(ObservedNames) >= 2
    /\ DOMAIN events = {"train", "test"}
    /\ \E i \in 1..Len(events["train"]), j \in 1..Len(events["test"]) :
          events["train"][i].var_id = events["test"][j].var_id

\* C10: after stages 2 and 3 every sample with a row in the split's label
\* table has exactly one slot in sample_ids and the tensor, so the tensor
\* has as many slots as the manifest has rows; a sample without events has
\* an all-zero slot.
C10_SampleConservation ==
    pc = "done3" =>
        /\ err = "none"
        /\ seq.written
        /\ Len(seq.X) = Len(labels[split].rows)
        /\ \A i \in 1..Len(labels[split].rows) :
              LET sid == labels[split].rows[i].sample_id
              IN  /\ Cardinality(SlotsOf(sid)) = 1
                  /\ Len(clean_root[split].files[sid]) = 0 =>
                        \A k \in SlotsOf(sid) :
                            seq.X[k] = [r \in 1..max_len |-> ZeroRow]

(***************************************************************************)
(* Stage 4, 4_build_targets.py: the Target Builder.                        *)
(* A label table is [cols, rows]: cols are the columns after sample_id, a  *)
(* row is [sample_id, vals] with vals in column order.  A cell is a number,*)
(* a missing value (NaN) or a text that is no number.                      *)
(***************************************************************************)
\* task.lower() on the task names tried
Lower(t) ==
    CASE t = "In_Hospital_Mortality" -> "in_hospital_mortality"
      [] t = "LOS" -> "los"
      [] OTHER -> t

\* labels.columns of a table that went through reset_index()
ColumnsOf(tbl) == <<"sample_id">> \o tbl.cols

\* labels[col].values for a column after sample_id
Column(tbl, col) ==
    LET ci == CHOOSE i \in 1..Len(tbl.cols) : tbl.cols[i] = col
    IN  [i \in 1..Len(tbl.rows) |-> tbl.rows[i].vals[ci]]

\* Series.astype(int) raises on a missing or non-numeric value;
\* Series.astype(float) keeps a missing value and raises on a text.
Castable(cells, type) ==
    \A i \in 1..Len(cells) :
        IF type = "int" THEN IsNum(cells[i]) ELSE cells[i] # Str

CastError == "ValueError: cannot convert label values"

\* The loop "for col in [...]: if col in labels.columns: return ..." with
\* the raise after it.
FirstColumnTarget(tbl, candidates, type, message) ==
    LET present == SelectSeq(candidates, LAMBDA c : c \in Range(ColumnsOf(tbl)))
    IN  IF Len(present) = 0 THEN [err |-> message, y |-> <<>>]
        ELSE LET cells == Column(tbl, present[1])
             IN  IF Castable(cells, type)
                 THEN [err |-> "none", y |-> [i \in 1..Len(cells) |-> <<cells[i]>>]]
                 ELSE [err |-> CastError, y |-> <<>>]

PhenotypingExclude ==
    {"sample_id", "filename", "stay", "stay_id", "subject_id", "hadm_id", "icustay_id"}

PhenotypingTarget(tbl) ==
    LET label_cols == SelectSeq(ColumnsOf(tbl), LAMBDA c : c \notin PhenotypingExclude)
    IN  IF Len(label_cols) = 0
        THEN [err |-> "ValueError: Phenotyping requires multiple label columns.",
              y |-> <<>>]
        ELSE IF \A k \in 1..Len(label_cols) : Castable(Column(tbl, label_cols[k]), "int")
        THEN [err |-> "none",
              y |-> [i \in 1..Len(tbl.rows) |->
                        [k \in 1..Len(label_cols) |-> Column(tbl, label_cols[k])[i]]]]
        ELSE [err |-> CastError, y |-> <<>>]

BuildTargets(t, tbl) ==
    LET tl == Lower(t)
    IN  IF tl \in {"in_hospital_mortality", "mortality"}
        THEN FirstColumnTarget(tbl, <<"in_hospital_mortality", "mortality", "label">>,
                 "int", "ValueError: Mortality task requires a binary label column.")
        ELSE IF tl \in {"decompensation"}
        THEN FirstColumnTarget(tbl, <<"decompensation", "label">>,
                 "int", "ValueError: Decompensation task requires a label column.")
        ELSE IF tl \in {"length_of_stay", "los"}
        THEN FirstColumnTarget(tbl, <<"length_of_stay", "los", "remain_los">>,
                 "float", "ValueError: LOS task requires a numeric LOS column.")
        ELSE IF tl \in {"phenotyping"}
        THEN PhenotypingTarget(tbl)
        ELSE [err |-> "ValueError: Unknown task", y |-> <<>>]

\* A wrong alignment: the rows of the ids, but in the table's own order.
AlignSamplesTableOrder(ids, tbl) ==
    IF \E k \in 1..Len(ids) : \A i \in 1..Len(tbl.rows) : tbl.rows[i].sample_id # ids[k]
    THEN [err |-> "KeyError", tbl |-> NoLabels]
    ELSE [err |-> "none",
          tbl |-> [cols |-> tbl.cols,
                   rows |-> SelectSeq(tbl.rows, LAMBDA r : r.sample_id \in Range(ids))]]

\* A wrong alignment: an id without a label row is skipped, not refused.
AlignSamplesSkipMissing(ids, tbl) ==
    [err |-> "none",
     tbl |-> [cols |-> tbl.cols,
              rows |-> Flatten([k \in 1..Len(ids) |->
                          SelectSeq(tbl.rows, LAMBDA r : r.sample_id = ids[k])])]]

\* labels.set_index("sample_id").loc[seq_ids].reset_index(): the rows of
\* each id in turn; KeyError when an id has no row.
AlignSamples(ids, tbl) ==
    IF \E k \in 1..Len(ids) : \A i \in 1..Len(tbl.rows) : tbl.rows[i].sample_id # ids[k]
    THEN [err |-> "KeyError", tbl |-> NoLabels]
    ELSE [err |-> "none",
          tbl |-> [cols |-> tbl.cols,
                   rows |-> Flatten([k \in 1..Len(ids) |->
                               SelectSeq(tbl.rows, LAMBDA r : r.sample_id = ids[k])])]]

\* The label tables tried: at most MaxLabelRows rows with distinct sample
\* ids in any order; one label column with any cell, or two with numbers.
LabelIds == 0..(MaxLabelRows - 1)
LabelColumns ==
    {<<>>, <<"mortality">>, <<"remain_los">>, <<"label", "mortality">>,
     <<"phen_a", "phen_b">>}
CellValues == {Num(0), Num(1), NaN, Str}
RowValues(cols) ==
    IF Len(cols) <= 1 THEN [1..Len(cols) -> CellValues]
    ELSE [1..Len(cols) -> {Num(0), Num(1)}]
DistinctSeqs(S, n) ==
    {s \in SeqsUpTo(S, n) : \A i, j \in 1..Len(s) : i # j => s[i] # s[j]}
LabelTables ==
    UNION {UNION {{[cols |-> cols,
                    rows |-> [i \in 1..Len(ids) |->
                                 [sample_id |-> ids[i], vals |-> vs[i]]]] :
                       vs \in [1..Len(ids) -> RowValues(cols)]} :
                  ids \in DistinctSeqs(LabelIds, MaxLabelRows)} :
           cols \in LabelColumns}
Tasks ==
    {"mortality", "In_Hospital_Mortality", "decompensation", "length_of_stay",
     "LOS", "phenotyping", "readmission"}

\* A seq.npz of stage 3 holds every sample once, and at least one sample.
SeqFiles ==
    {[written |-> TRUE, sample_ids |-> ids,
      X |-> [k \in 1..Len(ids) |-> <<ZeroRow>>]] :
        ids \in DistinctSeqs(LabelIds, MaxLabelRows) \ {<<>>}}

Init4 ==
    /\ pc = "stage4"
    /\ err = "none"
    /\ IdlePipe
    /\ Idle1
    /\ Idle2
    /\ events = NoFiles
    /\ \E tbl \in LabelTables : labels = [sp \in {"train"} |-> tbl]
    /\ split = "train"
    /\ max_len = 0
    /\ seq \in SeqFiles
    /\ task \in Tasks
    /\ targets = NoTargets

\* process_split(task, in_split_dir, out_split_dir) of stage 4
ProcessSplit4 ==
    /\ pc = "stage4"
    /\ LET aligned == AlignSamples(seq.sample_ids, labels[split])
           built   == BuildTargets(task, aligned.tbl)
       IN  IF aligned.err # "none"
           THEN err' = aligned.err /\ targets' = NoTargets
           ELSE IF built.err # "none"
           THEN err' = built.err /\ targets' = NoTargets
           ELSE err' = "none" /\ targets' = [written |-> TRUE, y |-> built.y]
    /\ pc' = "done4"
    /\ UNCHANGED <<disk, dirs, roots, listfile, ts_dir, clean_root, var_to_id, events, labels, split, max_len, seq, task>>

Next4 == ProcessSplit4

Spec4 == Init4 /\ [][Next4]_vars

(***************************************************************************)
(* C2, C8                                                                  *)
(***************************************************************************)
IntegerTasks == {"mortality", "in_hospital_mortality", "decompensation", "phenotyping"}
KnownTasks == IntegerTasks \cup {"length_of_stay", "los"}

\* The candidate label columns of a known task, in order of preference.
CandidatesOf(tl) ==
    CASE tl \in {"mortality", "in_hospital_mortality"} ->
             <<"in_hospital_mortality", "mortality", "label">>
      [] tl = "decompensation" -> <<"decompensation", "label">>
      [] tl \in {"length_of_stay", "los"} -> <<"length_of_stay", "los", "remain_los">>
      [] OTHER -> <<>>

\* The indices of the label columns the task reads from a table.
SelectedColumns(tl, cols) ==
    IF tl = "phenotyping" THEN [k \in 1..Len(cols) |-> k]
    ELSE LET hits == SelectSeq(CandidatesOf(tl), LAMBDA c : c \in Range(cols))
         IN  IF Len(hits) = 0 THEN <<>>
             ELSE <<CHOOSE k \in 1..Len(cols) : cols[k] = hits[1]>>

LabelsIn == labels[split]

LabelRowsOf(sid) == {i \in 1..Len(LabelsIn.rows) : LabelsIn.rows[i].sample_id = sid}

UnknownTask == Lower(task) \notin KnownTasks

NoCandidateColumn ==
    ~UnknownTask /\ Len(SelectedColumns(Lower(task), LabelsIn.cols)) = 0

MissingSample ==
    \E k \in 1..Len(seq.sample_ids) : LabelRowsOf(seq.sample_ids[k]) = {}

\* A value the task reads for a packed sample cannot be cast: missing or
\* text for an integer task, text for length of stay.
UncastableValue ==
    /\ ~UnknownTask
    /\ \E k \in 1..Len(seq.sample_ids) :
         \E i \in LabelRowsOf(seq.sample_ids[k]) :
           \E c \in Range(SelectedColumns(Lower(task), LabelsIn.cols)) :
              LET cell == LabelsIn.rows[i].vals[c]
              IN  IF Lower(task) \in IntegerTasks THEN ~IsNum(cell) ELSE cell = Str

\* C2: a target array that stage 4 has written has one row per entry of
\* sample_ids, and row i holds the values of the task's label columns in
\* the label row whose sample_id is sample_ids[i], whatever the row order
\* of the label table and the order of sample_ids.
C2_TargetsAligned ==
    pc = "done4" /\ targets.written =>
        /\ Len(targets.y) = Len(seq.sample_ids)
        /\ \A i \in 1..Len(seq.sample_ids) :
              \E r \in LabelRowsOf(seq.sample_ids[i]) :
                 LET sel == SelectedColumns(Lower(task), LabelsIn.cols)
                 IN  targets.y[i] = [k \in 1..Len(sel) |-> LabelsIn.rows[r].vals[sel[k]]]

\* Targets have been written for two samples whose label rows are in the
\* other order in the label table and hold different values.
C2_Witness ==
    /\ pc = "done4"
    /\ targets.written
    /\ Len(seq.sample_ids) = 2
    /\ targets.y[1] # targets.y[2]
    /\ \E i \in LabelRowsOf(seq.sample_ids[1]), j \in LabelRowsOf(seq.sample_ids[2]) :
          j < i

\* C8 as claimed: stage 4 ends with an error and no targets file when the
\* task is unknown, no candidate label column is present or a packed sample
\* has no label row, and writes a target array in every other case.
C8_FailFastOnlyThree ==
    pc = "done4" =>
        IF UnknownTask \/ NoCandidateColumn \/ MissingSample
        THEN err # "none" /\ ~targets.written
        ELSE err = "none" /\ targets.written

\* C8 as amended: the same three cases, and the case that a label value the
\* task reads for a packed sample cannot be cast to the target type, end in
\* an error with no targets file; every other case writes a target array.
C8_FailFast ==
    pc = "done4" =>
        IF UnknownTask \/ NoCandidateColumn \/ MissingSample \/ UncastableValue
        THEN err # "none" /\ ~targets.written
        ELSE err = "none" /\ targets.written

\* Stage 4 has refused a split whose tensor holds a sample without a label
\* row, for a known task whose label column is there.
C8_Witness ==
    /\ pc = "done4"
    /\ MissingSample /\ ~UnknownTask /\ ~NoCandidateColumn
    /\ err = "KeyError"
    /\ ~targets.written

(***************************************************************************)
(* The pipeline: the main of each stage run in order on directories.  A    *)
(* file system is [disk, dirs]: disk maps the path of a file to its        *)
(* content, dirs holds the directories made; a path is the sequence of its *)
(* components.                                                             *)
(***************************************************************************)
IsPrefix(d, p) == Len(d) <= Len(p) /\ SubSeq(p, 1, Len(d)) = d
Below(fsys, d) == {p \in DOMAIN fsys.disk \cup fsys.dirs : IsPrefix(d, p) /\ Len(p) > Len(d)}

\* os.listdir, os.path.isdir, os.path.exists on a file
ListDir(fsys, d) == {p[Len(d) + 1] : p \in Below(fsys, d)}
IsDir(fsys, d) == d \in fsys.dirs \/ Below(fsys, d) # {}
IsFile(fsys, p) == p \in DOMAIN fsys.disk
SubDirs(fsys, d) == {e \in ListDir(fsys, d) : IsDir(fsys, d \o <<e>>)}

\* os.makedirs(d, exist_ok=True) and the writing of files
MakeDirs(fsys, d) == [disk |-> fsys.disk, dirs |-> fsys.dirs \cup {d}]
WriteAll(fsys, files) ==
    [disk |-> [q \in DOMAIN fsys.disk \cup DOMAIN files |->
                  IF q \in DOMAIN files THEN files[q] ELSE fsys.disk[q]],
     dirs |-> fsys.dirs]
WriteFile(fsys, p, content) == WriteAll(fsys, [q \in {p} |-> content])

\* f"{sample_id}.parquet" in the split train, and back.
SampleFile(idx) == IF idx = 0 THEN "train_0.parquet" ELSE "train_1.parquet"
SampleFiles == {"train_0.parquet", "train_1.parquet"}
SampleIndex(name) == IF name = "train_0.parquet" THEN 0 ELSE 1

\* What process_split of stage 1 has written, res being its outcome.
WriteClean(fsys, out, res) ==
    [err |-> res.err,
     fsys |-> WriteAll([disk |-> fsys.disk,
                        dirs |-> fsys.dirs \cup (IF res.made THEN {out} ELSE {})],
                       [q \in {out \o <<SampleFile(idx)>> : idx \in DOMAIN res.files}
                              \cup (IF res.has_labels THEN {out \o <<"labels.parquet">>}
                                    ELSE {}) |->
                           IF q[4] = "labels.parquet" THEN res.labels
                           ELSE res.files[SampleIndex(q[4])]])]

\* The time series files of a split directory, name -> table.
SplitFiles(fsys, split_dir) ==
    [f \in {e \in ListDir(fsys, split_dir) :
               IsFile(fsys, split_dir \o <<e>>) /\ e # "listfile.csv"} |->
        fsys.disk[split_dir \o <<f>>]]

\* process_split of stage 1 on directories
NormalizeSplitDir(fsys, task_root, sp, out_root) ==
    WriteClean(fsys, <<out_root, "clean", sp>>,
               NormalizeSplit(fsys.disk[<<task_root, sp, "listfile.csv">>],
                              SplitFiles(fsys, <<task_root, sp>>)))

\* What process_split of stage 3 has written, out being the packed events.
WriteSeq(fsys, path, out) ==
    [err |-> out.err,
     fsys |-> IF out.err = "none" THEN WriteFile(fsys, path, out.seq) ELSE fsys]

\* process_split of stage 3 on directories
BuildSeqDir(fsys, in_dir, out_dir, L) ==
    IF ~IsFile(fsys, in_dir \o <<"events.parquet">>)
    THEN [err |-> "FileNotFoundError: events.parquet", fsys |-> MakeDirs(fsys, out_dir)]
    ELSE WriteSeq(MakeDirs(fsys, out_dir), out_dir \o <<"seq.npz">>,
                  BuildSeq(fsys.disk[in_dir \o <<"events.parquet">>], L))

\* What process_split of stage 4 has written, aligned and built being the
\* outcomes of align_samples and build_targets.
WriteTargets(fsys, path, aligned, built) ==
    IF aligned.err # "none" THEN [err |-> aligned.err, fsys |-> fsys]
    ELSE IF built.err # "none" THEN [err |-> built.err, fsys |-> fsys]
    ELSE [err |-> "none",
          fsys |-> WriteFile(fsys, path, [written |-> TRUE, y |-> built.y])]

\* labels = align_samples(sample_ids, labels) of stage 4 on directories
AlignDir(fsys, in_dir) ==
    AlignSamples(fsys.disk[in_dir \o <<"seq.npz">>].sample_ids,
                 fsys.disk[in_dir \o <<"labels.parquet">>])

\* process_split of stage 4 on directories
BuildTargetsDir(fsys, t, in_dir, out_dir) ==
    IF ~IsFile(fsys, in_dir \o <<"labels.parquet">>)
    THEN [err |-> "FileNotFoundError: labels.parquet", fsys |-> MakeDirs(fsys, out_dir)]
    ELSE IF ~IsFile(fsys, in_dir \o <<"seq.npz">>)
    THEN [err |-> "FileNotFoundError: seq.npz", fsys |-> MakeDirs(fsys, out_dir)]
    ELSE WriteTargets(MakeDirs(fsys, out_dir), out_dir \o <<"targets.npy">>,
                      AlignDir(fsys, in_dir),
                      BuildTargets(t, AlignDir(fsys, in_dir).tbl))

\* process_split and write_group of stage 5 on a split directory: the
\* group of the split joins the HDF5 file.
ExportDir(fsys, in_dir, out_file, sp) ==
    IF ~IsFile(fsys, in_dir \o <<"seq.npz">>)
    THEN [err |-> "FileNotFoundError: seq.npz", fsys |-> fsys]
    ELSE IF ~IsFile(fsys, in_dir \o <<"targets.npy">>)
    THEN [err |-> "FileNotFoundError: targets.npy", fsys |-> fsys]
    ELSE LET h5 == fsys.disk[out_file]
             g  == [X |-> fsys.disk[in_dir \o <<"seq.npz">>].X,
                    y |-> fsys.disk[in_dir \o <<"targets.npy">>].y]
         IN  [err |-> "none",
              fsys |-> WriteFile(fsys, out_file,
                                 [n \in DOMAIN h5 \cup {sp} |-> IF n = sp THEN g ELSE h5[n]])]

\* One turn of the loop over the splits in the main of a stage.
SplitStep(stage, fsys, sp) ==
    CASE stage.n = 1 -> NormalizeSplitDir(fsys, stage.in_root, sp, stage.out_root)
      [] stage.n = 3 -> BuildSeqDir(fsys, <<stage.in_root, sp>>, <<stage.out_root, sp>>,
                                    stage.max_len)
      [] stage.n = 4 -> BuildTargetsDir(fsys, stage.task, <<stage.in_root, sp>>,
                                        <<stage.out_root, sp>>)
      [] OTHER -> ExportDir(fsys, <<stage.in_root, sp>>, stage.out_file, sp)

\* The loop over the splits: it ends at the first split that raises.
RECURSIVE RunSplits(_, _, _)
AfterSplit(stage, r, rest) ==
    IF r.err # "none" THEN r ELSE RunSplits(stage, r.fsys, rest)
RunSplits(stage, fsys, order) ==
    IF order = <<>> THEN [err |-> "none", fsys |-> fsys]
    ELSE AfterSplit(stage, SplitStep(stage, fsys, Head(order)), Tail(order))

\* main of stage 1
Main1(fsys, task_root, out_root) ==
    IF \A sp \in {"train", "val", "validation", "test"} :
          ~IsFile(fsys, <<task_root, sp, "listfile.csv">>)
    THEN [err |-> "ValueError: No splits found", fsys |-> MakeDirs(fsys, <<out_root>>)]
    ELSE RunSplits([n |-> 1, in_root |-> task_root, out_root |-> out_root],
                   MakeDirs(fsys, <<out_root>>),
                   SelectSeq(<<"train", "val", "validation", "test">>,
                             LAMBDA sp : IsFile(fsys, <<task_root, sp, "listfile.csv">>)))

\* The clean directory as stage 2 reads it: per split directory the event
\* files (*.parquet but labels.parquet) and the label table.
CleanView(fsys, clean) ==
    [sp \in SubDirs(fsys, clean) |->
        LET d == clean \o <<sp>>
        IN  [files |-> [idx \in {SampleIndex(e) : e \in ListDir(fsys, d) \cap SampleFiles} |->
                           fsys.disk[d \o <<SampleFile(idx)>>]],
             labels |-> IF IsFile(fsys, d \o <<"labels.parquet">>)
                        THEN fsys.disk[d \o <<"labels.parquet">>] ELSE NoLabels,
             has_labels |-> IsFile(fsys, d \o <<"labels.parquet">>)]]

\* What main of stage 2 has written, out being the outcome of its loop.
WriteConverted(fsys, out_root, out) ==
    [err |-> out.err,
     fsys |-> WriteAll([disk |-> fsys.disk,
                        dirs |-> fsys.dirs \cup {<<out_root>>}
                                    \cup {<<out_root, sp>> : sp \in out.made}],
                       [q \in {<<out_root, "var_to_id.json">>}
                              \cup {<<out_root, sp, "labels.parquet">> : sp \in DOMAIN out.labels}
                              \cup {<<out_root, sp, "events.parquet">> : sp \in DOMAIN out.events} |->
                           IF Len(q) = 2 THEN out.var_to_id
                           ELSE IF q[3] = "labels.parquet" THEN out.labels[q[2]]
                           ELSE out.events[q[2]]])]

\* main of stage 2
Main2(fsys, in_root, out_root, listing) ==
    IF ~IsDir(fsys, <<in_root, "clean">>)
    THEN [err |-> "ValueError: Input root must contain a 'clean' directory", fsys |-> fsys]
    ELSE WriteConverted(fsys, out_root,
                        ConvertRoot(CleanView(fsys, <<in_root, "clean">>), listing))

\* main of stage 3 and of stage 4: the split directories of in_root in
\* listing order.
Main3(fsys, in_root, out_root, L, order) ==
    RunSplits([n |-> 3, in_root |-> in_root, out_root |-> out_root, max_len |-> L],
              MakeDirs(fsys, <<out_root>>), order)
Main4(fsys, t, in_root, out_root, order) ==
    RunSplits([n |-> 4, in_root |-> in_root, out_root |-> out_root, task |-> t],
              MakeDirs(fsys, <<out_root>>), order)

\* main of stage 5: the HDF5 file is opened for writing, then every split
\* directory of in_root is exported.
Main5(fsys, in_root, out_file, order) ==
    RunSplits([n |-> 5, in_root |-> in_root, out_file |-> out_file],
              WriteFile(MakeDirs(fsys, <<out_file[1]>>), out_file, <<>>), order)

\* The runs tried: stage 1 on a task root raw, or stage 2 onward over a
\* clean directory that is already in the out_root of stage 1; the four
\* out_roots are any of four directory names, the HDF5 file is o5/data.h5.
OutRoots == {"o1", "o2", "o3", "o4"}
OutFile == <<"o5", "data.h5">>
PipeManifests ==
    {[cols |-> <<"filename", "mortality">>, rows |-> rows] :
        rows \in {<<>>, <<<<Text(1), Num(1)>>>>, <<<<Text(4), Num(1)>>>>}}
PipeRawTable == [cols |-> <<"Hours", "HR">>, rows |-> <<<<Num(0), Num(5)>>>>]
RawTrees ==
    {[q \in {<<"raw", "train", "listfile.csv">>, <<"raw", "train", "a.csv">>} |->
         IF q[3] = "listfile.csv" THEN m ELSE PipeRawTable] : m \in PipeManifests}
PipeCleanEvents ==
    LET a == [split |-> "train", sample_id |-> 0, hours |-> 0, variable |-> NameA, value |-> 7]
        b == [split |-> "train", sample_id |-> 1, hours |-> 0, variable |-> NameB, value |-> 7]
    IN  {<<>>, <<a>>, <<a, b>>}
CleanTrees(r) ==
    {LET c == CleanRoot([sp \in {"train"} |-> {0, 1}], m)["train"]
     IN  [q \in {<<r, "clean", "train", e>> : e \in SampleFiles \cup {"labels.parquet"}} |->
             IF q[4] = "labels.parquet" THEN c.labels ELSE c.files[SampleIndex(q[4])]] :
        m \in PipeCleanEvents}

InitPipe ==
    /\ pc \in {"run1", "run2"}
    /\ err = "none"
    /\ Idle1
    /\ Idle2
    /\ events = NoFiles
    /\ labels = NoFiles
    /\ split = ""
    /\ max_len \in 1..MaxLen
    /\ seq = NoSeq
    /\ task \in {"mortality", "phenotyping"}
    /\ targets = NoTargets
    /\ roots \in [1..4 -> OutRoots]
    /\ dirs = {}
    /\ disk \in IF pc = "run1" THEN RawTrees ELSE CleanTrees(roots[1])

FileSystem == [disk |-> disk, dirs |-> dirs]

\* The end of a stage of the run: what it wrote stays, the next stage
\* starts only when it raised nothing.
Finish(r, next) ==
    /\ disk' = r.fsys.disk
    /\ dirs' = r.fsys.dirs
    /\ err' = r.err
    /\ pc' = IF r.err = "none" THEN next ELSE "run_failed"
    /\ UNCHANGED <<roots, listfile, ts_dir, clean_root, var_to_id, events, labels, split,
                   max_len, seq, task, targets>>

Pipe1 ==
    /\ pc = "run1"
    /\ Finish(Main1(FileSystem, "raw", roots[1]), "run2")

Pipe2 ==
    /\ pc = "run2"
    /\ \E listing \in Listings(CleanView(FileSystem, <<roots[1], "clean">>)) :
          Finish(Main2(FileSystem, roots[1], roots[2], listing), "run3")

Pipe3 ==
    /\ pc = "run3"
    /\ \E order \in ListingOrders(SubDirs(FileSystem, <<roots[2]>>)) :
          Finish(Main3(FileSystem, roots[2], roots[3], max_len, order), "run4")

Pipe4 ==
    /\ pc = "run4"
    /\ \E order \in ListingOrders(SubDirs(FileSystem, <<roots[3]>>)) :
          Finish(Main4(FileSystem, task, roots[3], roots[4], order), "run5")

Pipe5 ==
    /\ pc = "run5"
    /\ \E order \in ListingOrders(SubDirs(FileSystem, <<roots[4]>>)) :
          Finish(Main5(FileSystem, roots[4], OutFile, order), "run_done")

NextPipe == Pipe1 \/ Pipe2 \/ Pipe3 \/ Pipe4 \/ Pipe5

SpecPipe == InitPipe /\ [][NextPipe]_vars

\* C7: when stages 1 to 5 run in order, each writing to its own output
\* directory disjoint from all others and each of stages 2 to 5 given its
\* immediate predecessor's output directory as input, every stage finds
\* every file it reads (events table, label table, seq container, targets
\* file) in that input directory.
C7_EveryStageFindsItsFiles ==
    (\A i, j \in 1..4 : i # j => roots[i] # roots[j])
        => err \notin {"FileNotFoundError: events.parquet", "FileNotFoundError: labels.parquet",
                       "FileNotFoundError: seq.npz", "FileNotFoundError: targets.npy"}
====
